---- MODULE Spec2Model ----
(***************************************************************************)
(* The DA syncer of scroll-geth: the range-advancing CalldataBlobSource    *)
(* (NextData / L1Height / processLogsToDA) and the DAQueue on top of it    *)
(* (NextDA / getNextData).                                                 *)
(*                                                                         *)
(* The pipeline is sequential: one consumer calls NextDA. The only thing   *)
(* that moves besides the consumer is the L1 chain, whose finalized height *)
(* grows. Heights are far below 2^64, so uint64 arithmetic is modelled on  *)
(* the naturals.                                                           *)
(***************************************************************************)
EXTENDS Integers, Sequences, FiniteSets, TLC

\* ------------------------------------------------------------------ bounds
\* Highest L1 height the finalized block number reaches.
MaxHeight == 5
\* Highest height a DAQueue is constructed at.
MaxInitHeight == 1
\* The fetch window of the model. The source sets it to 500 blocks; the model
\* scales it so that several windows fit below MaxHeight.
Window == 3
\* Highest position, in the logs of a range, of a log whose transaction fails.
MaxFailAt == 4
\* The bits of one word of a skip bitmap. The codec uses words of 256 bits; the
\* model scales them.
WordBits == 4
\* Highest totalL1MessagePopped a parent batch header carries.
MaxParent == 1
\* Highest queue index of a message the message store may lack.
MaxMissing == 4
\* Most slots the chunks of a decoded batch have.
MaxTotal == 3
\* Most invocations of getNextData the model nests inside one NextDA call.
MaxDepth == 3

callDataBlobSourceFetchBlockRange == Window

\* --------------------------------------------------------------- constants
Nil == "nil"
\* The Exhausted sentinel: the queue tests for errSourceExhausted, the source
\* returns sourceExhaustedErr; they name one value.
errSourceExhausted == "data source has been exhausted"
sourceExhaustedErr == errSourceExhausted
ErrFinalized == "cannot get l1height"
ErrEvents == "cannot get events"
ErrCommitDa == "failed to get commit batch da"
ErrUnknownEvent == "unknown event"
ErrOpen == "open data source failed"
ErrFetchTxData == "fetchTxData failed"
ErrTooShort == "transaction data is too short"
ErrMethodById == "failed to get method by ID"
ErrUnpack == "failed to unpack transaction data using ABI"
ErrCopyArgs == "failed to decode calldata into commitBatch args"
ErrUnknownCodec == "failed to decode DA, codec version is unknown"
ErrUnpackChunks == "failed to unpack chunks"
ErrFetchBlobHash == "failed to fetch blob hash"
ErrFetchBlob == "failed to fetch blob from blob client"
ErrNilBlob == "unexpected, blob == nil"
ErrBlobCommitment == "failed to create blob commitment"
ErrBlobHashMismatch == "blobVersionedHash from blob source is not equal to versionedHash from tx"
ErrDecodeTxsFromBlob == "failed to decode txs from blob"
ErrDecodeBitmap == "failed to decode bitmap"
ErrReadL1Message == "failed to read L1 message from db"
ErrGetHeader == "failed to get header by number"
\* A Go run-time panic (index or slice bounds out of range): no error is
\* returned, the call does not return.
Panic == "panic"

\* The errors of NextData that are not the Exhausted sentinel.
HardErrors == {ErrFinalized, ErrEvents, ErrCommitDa, ErrUnknownEvent}
\* The errors of the fetch and of the decode of a range.
RangeErrors == {ErrEvents, ErrCommitDa, ErrUnknownEvent}

l1CommitBatchEventSignature == "CommitBatch"
l1RevertBatchEventSignature == "RevertBatch"
l1FinalizeBatchEventSignature == "FinalizeBatch"
UnknownEventSignature == "Unknown"

\* ------------------------------------------------- messages, blobs, bitmaps
\* core/types.L1MessageTx, as far as the syncer reads it; nil is NilL1Message.
NilL1Message == [QueueIndex |-> -1]

\* rawdb.ReadL1Message: the message of a queue index in the message store db
\* (the set of the indices it holds), or nil.
ReadL1Message(db, index) ==
    IF index \in db THEN [QueueIndex |-> index] ELSE NilL1Message

\* kzg4844.BlobToCommitment and kzg4844.CalcBlobHashV1: the versioned hash of
\* a blob is a function of its content, different for different contents.
BlobToCommitment(blob) == <<"commitment", blob>>
CalcBlobHashV1(commitment) == <<"versioned hash", commitment[2]>>

\* A skip bitmap as call data carries it: len bits, of which those at the
\* positions in set are 1.
Bitmap(len, set) == [len |-> len, set |-> set]

\* encoding.DecodeBitmap: the bitmap is whole words and covers the slots.
DecodeBitmap(skippedL1MessageBitmap, totalL1MessagePopped) ==
    IF skippedL1MessageBitmap.len % WordBits # 0 THEN ErrDecodeBitmap
    ELSE IF skippedL1MessageBitmap.len < totalL1MessagePopped THEN ErrDecodeBitmap
    ELSE Nil

\* encoding.IsL1MessageSkipped indexes the words of the bitmap: a position past
\* its last word is out of range.
BitOutOfRange(skippedBitmap, index) == index >= skippedBitmap.len

IsL1MessageSkipped(skippedBitmap, index) == index \in skippedBitmap.set

\* binary.BigEndian.Uint64 of a sequence of 8 bytes.
RECURSIVE BigEndianUint64(_)
BigEndianUint64(bytes) ==
    IF bytes = <<>> THEN 0
    ELSE 256 * BigEndianUint64(SubSeq(bytes, 1, Len(bytes) - 1)) + bytes[Len(bytes)]

\* getBatchTotalL1MessagePopped reads data[17:25]; a shorter header panics.
HeaderTooShort(data) == Len(data) < 25

getBatchTotalL1MessagePopped(data) == BigEndianUint64(SubSeq(data, 18, 25))

\* The bytes of a batch header whose totalL1MessagePopped field is n.
BatchHeader(n) == [i \in 1..25 |-> IF i = 25 THEN n % 256 ELSE IF i = 24 THEN n \div 256 ELSE 0]

\* The sum of NumL1Messages over the blocks of the chunks.
RECURSIVE SumSeq(_)
SumSeq(q) == IF q = <<>> THEN 0 ELSE q[1] + SumSeq(Tail(q))

totalL1MessagePopped(chunks) == SumSeq([i \in 1..Len(chunks) |-> SumSeq(chunks[i])])

\* ---------------------------------------------------------------- L1 chain
\* The call data of a commit transaction once the ABI decoded it. short: fewer
\* than 4 bytes; method: the method MethodById finds, "unknown" if none;
\* unpackOk, copyOk: Inputs.Unpack and Inputs.Copy succeed. Chunks: the result
\* of DecodeDAChunksRawTx, per chunk the NumL1Messages of its blocks.
TxData(short, method, unpackOk, copyOk, version, header, chunksOk, chunks, bitmap) ==
    [short |-> short, method |-> method, unpackOk |-> unpackOk, copyOk |-> copyOk,
     args |-> [Version |-> version, ParentBatchHeader |-> header,
               Chunks |-> [ok |-> chunksOk, chunks |-> chunks],
               SkippedL1MessageBitmap |-> bitmap]]

\* The transaction the commit logs of the model's chains come from: batch b,
\* of version b % 3, pops the one message b and skips none.
ChainTx(b) ==
    TxData(FALSE, "commitBatch", TRUE, TRUE, b % 3, BatchHeader(b), TRUE,
           << <<1>> >>, Bitmap(WordBits, {}))

\* types.Log, as far as the syncer reads it: Topics[0], the batch index the
\* event unpacks to, BlockNumber, TxHash, and behind the hash the call data of
\* the transaction and the versioned hash of its blob.
Log(topic, batchIndex, blockNumber) ==
    [topic |-> topic, batchIndex |-> batchIndex, blockNumber |-> blockNumber,
     txHash |-> <<blockNumber, topic, batchIndex>>,
     tx |-> ChainTx(batchIndex),
     blobHash |-> CalcBlobHashV1(BlobToCommitment("blob"))]

\* The chains the model runs on.
Chains == {"dense", "sparse", "bad"}

\* The rollup event logs of block h of chain c, in emission order.
LogsAt(c, h) ==
    CASE c = "dense" ->
           IF h = 0 THEN <<Log(l1CommitBatchEventSignature, 0, 0)>>
           ELSE IF h % 3 = 1
                THEN <<Log(l1CommitBatchEventSignature, h, h),
                       Log(l1RevertBatchEventSignature, h, h)>>
           ELSE IF h % 3 = 2
                THEN <<Log(l1CommitBatchEventSignature, h, h),
                       Log(l1FinalizeBatchEventSignature, h - 1, h)>>
           ELSE <<>>
      [] c = "sparse" ->
           IF h % 5 = 4 THEN <<Log(l1CommitBatchEventSignature, h, h)>> ELSE <<>>
      [] OTHER ->
           IF h = 2 THEN <<Log(l1FinalizeBatchEventSignature, 1, h),
                           Log(UnknownEventSignature, 0, h)>>
           ELSE IF h % 2 = 1 THEN <<Log(l1CommitBatchEventSignature, h, h)>>
           ELSE <<>>

\* L1Client.fetchRollupEventsInRange: the logs of the blocks from..to.
RECURSIVE fetchRollupEventsInRange(_, _, _)
fetchRollupEventsInRange(c, from, to) ==
    IF from > to THEN <<>>
    ELSE LogsAt(c, from) \o fetchRollupEventsInRange(c, from + 1, to)

\* --------------------------------------------------------------- DA entries
\* The nil DAEntry a failing call returns.
NoEntry == [DaType |-> "none", BatchIndex |-> 0, L1BlockNumber |-> 0]

NewCommitBatchDaV0(version, batchIndex, parentBatchHeader, skippedL1MessageBitmap, chunks, l1Txs, l1BlockNumber) ==
    [DaType |-> "CommitBatchV0", Version |-> version, BatchIndex |-> batchIndex,
     ParentBatchHeader |-> parentBatchHeader,
     SkippedL1MessageBitmap |-> skippedL1MessageBitmap,
     Chunks |-> chunks, L1Txs |-> l1Txs, L1BlockNumber |-> l1BlockNumber]

NewCommitBatchDaV1(version, batchIndex, parentBatchHeader, skippedL1MessageBitmap, chunks, l1Txs, l1BlockNumber) ==
    [DaType |-> "CommitBatchV1", Version |-> version, BatchIndex |-> batchIndex,
     ParentBatchHeader |-> parentBatchHeader,
     SkippedL1MessageBitmap |-> skippedL1MessageBitmap,
     Chunks |-> chunks, L1Txs |-> l1Txs, L1BlockNumber |-> l1BlockNumber]

NewCommitBatchDaV2(version, batchIndex, parentBatchHeader, skippedL1MessageBitmap, chunks, l1Txs, l1BlockNumber) ==
    [DaType |-> "CommitBatchV2", Version |-> version, BatchIndex |-> batchIndex,
     ParentBatchHeader |-> parentBatchHeader,
     SkippedL1MessageBitmap |-> skippedL1MessageBitmap,
     Chunks |-> chunks, L1Txs |-> l1Txs, L1BlockNumber |-> l1BlockNumber]

\* The constructor sets DaType and BatchIndex; L1BlockNumber keeps its zero value.
NewRevertBatchDA(batchIndex) ==
    [DaType |-> "RevertBatch", BatchIndex |-> batchIndex, L1BlockNumber |-> 0]

NewFinalizeBatchDA(batchIndex) ==
    [DaType |-> "FinalizeBatch", BatchIndex |-> batchIndex, L1BlockNumber |-> 0]

\* ----------------------------------------------------------- commit decoders
\* What a decoder returns, and what it did on the way: index is the message
\* index its error names (-1: none), calls the requests it made to the L1
\* client, the blob client and the blob codec, in order, bits the bitmap
\* positions it examined and reads the message indices it read.
Decoded(entry, calls, walk) ==
    [entry |-> entry, err |-> Nil, index |-> -1, calls |-> calls,
     bits |-> walk.bits, reads |-> walk.reads]

NoWalk == [currentIndex |-> 0, l1Txs |-> <<>>, bits |-> {}, reads |-> {}]

Failed(err, calls) ==
    [entry |-> NoEntry, err |-> err, index |-> -1, calls |-> calls,
     bits |-> {}, reads |-> {}]

FailedWalk(walk, calls) ==
    [entry |-> NoEntry, err |-> walk.err, index |-> walk.index, calls |-> calls,
     bits |-> walk.bits, reads |-> walk.reads]

\* The state of a walk over the slots of a batch, before its first slot.
StartAt(parentTotalL1MessagePopped) ==
    [currentIndex |-> parentTotalL1MessagePopped, l1Txs |-> <<>>, bits |-> {}, reads |-> {}]

WalkDone(acc, err, index) ==
    [l1Txs |-> acc.l1Txs, err |-> err, index |-> index, bits |-> acc.bits, reads |-> acc.reads]

\* A walk that keeps one slot for a skipped message but leaves currentIndex
\* on it.
RECURSIVE collectL1TxsV0Stuck(_, _, _, _, _, _)
collectL1TxsV0Stuck(db, skippedBitmap, parent, total, index, acc) ==
    IF index >= total THEN WalkDone(acc, Nil, -1)
    ELSE LET pos == acc.currentIndex - parent
             seen == [acc EXCEPT !.bits = @ \cup {pos}]
         IN  IF BitOutOfRange(skippedBitmap, pos) THEN WalkDone(seen, Panic, -1)
             ELSE IF IsL1MessageSkipped(skippedBitmap, pos)
             THEN collectL1TxsV0Stuck(db, skippedBitmap, parent, total, index + 1, seen)
             ELSE LET l1Tx == ReadL1Message(db, acc.currentIndex)
                      read == [seen EXCEPT !.reads = @ \cup {acc.currentIndex}]
                  IN  IF l1Tx = NilL1Message
                      THEN WalkDone(read, ErrReadL1Message, acc.currentIndex)
                      ELSE collectL1TxsV0Stuck(db, skippedBitmap, parent, total, index + 1,
                               [read EXCEPT !.l1Txs = Append(@, l1Tx), !.currentIndex = @ + 1])

\* A walk that passes over a message the store lacks.
RECURSIVE collectL1TxsV0Lenient(_, _, _, _, _, _)
collectL1TxsV0Lenient(db, skippedBitmap, parent, total, index, acc) ==
    IF index >= total THEN WalkDone(acc, Nil, -1)
    ELSE LET pos == acc.currentIndex - parent
             seen == [acc EXCEPT !.bits = @ \cup {pos}]
         IN  IF BitOutOfRange(skippedBitmap, pos) THEN WalkDone(seen, Panic, -1)
             ELSE IF IsL1MessageSkipped(skippedBitmap, pos)
             THEN collectL1TxsV0Lenient(db, skippedBitmap, parent, total, index + 1,
                      [seen EXCEPT !.currentIndex = @ + 1])
             ELSE LET l1Tx == ReadL1Message(db, acc.currentIndex)
                      read == [seen EXCEPT !.reads = @ \cup {acc.currentIndex}]
                  IN  IF l1Tx = NilL1Message
                      THEN collectL1TxsV0Lenient(db, skippedBitmap, parent, total, index + 1,
                               [read EXCEPT !.currentIndex = @ + 1])
                      ELSE collectL1TxsV0Lenient(db, skippedBitmap, parent, total, index + 1,
                               [read EXCEPT !.l1Txs = Append(@, l1Tx), !.currentIndex = @ + 1])

\* The loop of decodeDAV0 from slot index on: one slot per iteration, the slot
\* of a skipped message included.
RECURSIVE collectL1TxsV0(_, _, _, _, _, _)
collectL1TxsV0(db, skippedBitmap, parent, total, index, acc) ==
    IF index >= total THEN WalkDone(acc, Nil, -1)
    ELSE LET pos == acc.currentIndex - parent
             seen == [acc EXCEPT !.bits = @ \cup {pos}]
         IN  IF BitOutOfRange(skippedBitmap, pos) THEN WalkDone(seen, Panic, -1)
             ELSE IF IsL1MessageSkipped(skippedBitmap, pos)
             THEN collectL1TxsV0(db, skippedBitmap, parent, total, index + 1,
                      [seen EXCEPT !.currentIndex = @ + 1])
             ELSE LET l1Tx == ReadL1Message(db, acc.currentIndex)
                      read == [seen EXCEPT !.reads = @ \cup {acc.currentIndex}]
                  IN  IF l1Tx = NilL1Message
                      THEN WalkDone(read, ErrReadL1Message, acc.currentIndex)
                      ELSE collectL1TxsV0(db, skippedBitmap, parent, total, index + 1,
                               [read EXCEPT !.l1Txs = Append(@, l1Tx), !.currentIndex = @ + 1])

\* The inner loop of decodeDAV1 and decodeDAV2: currentIndex moves over a run
\* of skipped messages; it stops at the first position that is not skipped,
\* or leaves the bitmap.
RECURSIVE skipRun(_, _, _)
skipRun(skippedBitmap, parent, acc) ==
    LET pos == acc.currentIndex - parent
        seen == [acc EXCEPT !.bits = @ \cup {pos}]
    IN  IF BitOutOfRange(skippedBitmap, pos) THEN [acc |-> seen, panic |-> TRUE]
        ELSE IF IsL1MessageSkipped(skippedBitmap, pos)
        THEN skipRun(skippedBitmap, parent, [seen EXCEPT !.currentIndex = @ + 1])
        ELSE [acc |-> seen, panic |-> FALSE]

\* The loop of decodeDAV1 and decodeDAV2 from slot index on: every iteration
\* passes the run of skipped messages and reads one message.
RECURSIVE collectL1TxsV1(_, _, _, _, _, _)
collectL1TxsV1(db, skippedBitmap, parent, total, index, acc) ==
    IF index >= total THEN WalkDone(acc, Nil, -1)
    ELSE LET run == skipRun(skippedBitmap, parent, acc) IN
         IF run.panic THEN WalkDone(run.acc, Panic, -1)
         ELSE LET currentIndex == run.acc.currentIndex
                  l1Tx == ReadL1Message(db, currentIndex)
                  read == [run.acc EXCEPT !.reads = @ \cup {currentIndex}]
              IN  IF l1Tx = NilL1Message
                  THEN WalkDone(read, ErrReadL1Message, currentIndex)
                  ELSE collectL1TxsV1(db, skippedBitmap, parent, total, index + 1,
                           [read EXCEPT !.l1Txs = Append(@, l1Tx), !.currentIndex = @ + 1])

\* What a decoder meets outside the call data: fetchTxData, fetchTxBlobHash,
\* GetHeaderByNumber, the blob client, the commitment and the blob codec
\* succeed or fail; the blob client may return no blob (blobNil); blob is the
\* blob it returns otherwise, db the message store.
World(txOk, hashOk, headerOk, blobOk, blobNil, commitOk, blobTxOk, blob, db) ==
    [txOk |-> txOk, hashOk |-> hashOk, headerOk |-> headerOk, blobOk |-> blobOk,
     blobNil |-> blobNil, commitOk |-> commitOk, blobTxOk |-> blobTxOk,
     blob |-> blob, db |-> db]

\* A blob stage that hands the fetched blob to the codec unverified.
fetchBlobUnverified(vLog, w, decodeTxsFromBlob) ==
    IF ~w.hashOk THEN [err |-> ErrFetchBlobHash, calls |-> <<"fetchTxBlobHash">>]
    ELSE IF ~w.blobOk
    THEN [err |-> ErrFetchBlob, calls |-> <<"fetchTxBlobHash", "GetBlobByVersionedHash">>]
    ELSE IF ~w.commitOk
    THEN [err |-> ErrBlobCommitment, calls |-> <<"fetchTxBlobHash", "GetBlobByVersionedHash">>]
    ELSE [err |-> IF w.blobTxOk THEN Nil ELSE ErrDecodeTxsFromBlob,
          calls |-> <<"fetchTxBlobHash", "GetBlobByVersionedHash", decodeTxsFromBlob>>]

\* The blob stage of decodeDAV1 and decodeDAV2: the versioned hash of the
\* transaction, the blob of that hash, its commitment and hash recomputed and
\* compared, then the transactions decoded from the blob.
fetchBlob(vLog, w, decodeTxsFromBlob) ==
    IF ~w.hashOk THEN [err |-> ErrFetchBlobHash, calls |-> <<"fetchTxBlobHash">>]
    ELSE LET versionedHash == vLog.blobHash IN
         IF ~w.blobOk
         THEN [err |-> ErrFetchBlob, calls |-> <<"fetchTxBlobHash", "GetBlobByVersionedHash">>]
         ELSE LET blob == w.blob IN
              IF ~w.commitOk
              THEN [err |-> ErrBlobCommitment,
                    calls |-> <<"fetchTxBlobHash", "GetBlobByVersionedHash">>]
              ELSE LET blobVersionedHash == CalcBlobHashV1(BlobToCommitment(blob)) IN
                   IF blobVersionedHash # versionedHash
                   THEN [err |-> ErrBlobHashMismatch,
                         calls |-> <<"fetchTxBlobHash", "GetBlobByVersionedHash">>]
                   ELSE [err |-> IF w.blobTxOk THEN Nil ELSE ErrDecodeTxsFromBlob,
                         calls |-> <<"fetchTxBlobHash", "GetBlobByVersionedHash",
                                     decodeTxsFromBlob>>]

decodeDAV0(batchIndex, vLog, args, w) ==
    IF ~args.Chunks.ok THEN Failed(ErrUnpackChunks, <<>>)
    ELSE IF HeaderTooShort(args.ParentBatchHeader) THEN Failed(Panic, <<>>)
    ELSE LET chunks == args.Chunks.chunks
             parentTotalL1MessagePopped == getBatchTotalL1MessagePopped(args.ParentBatchHeader)
             total == totalL1MessagePopped(chunks)
         IN  IF DecodeBitmap(args.SkippedL1MessageBitmap, total) # Nil
             THEN Failed(ErrDecodeBitmap, <<>>)
             ELSE LET walk == collectL1TxsV0(w.db, args.SkippedL1MessageBitmap,
                                  parentTotalL1MessagePopped, total, 0,
                                  StartAt(parentTotalL1MessagePopped))
                  IN  IF walk.err # Nil THEN FailedWalk(walk, <<>>)
                      ELSE Decoded(NewCommitBatchDaV0(args.Version, batchIndex,
                                       parentTotalL1MessagePopped, args.SkippedL1MessageBitmap,
                                       chunks, walk.l1Txs, vLog.blockNumber), <<>>, walk)

decodeDAV1(batchIndex, vLog, args, w) ==
    IF ~args.Chunks.ok THEN Failed(ErrUnpackChunks, <<>>)
    ELSE LET chunks == args.Chunks.chunks
             fetched == fetchBlob(vLog, w, "codecv1.DecodeTxsFromBlob")
         IN  IF fetched.err # Nil THEN Failed(fetched.err, fetched.calls)
             ELSE IF HeaderTooShort(args.ParentBatchHeader) THEN Failed(Panic, fetched.calls)
             ELSE LET parentTotalL1MessagePopped ==
                          getBatchTotalL1MessagePopped(args.ParentBatchHeader)
                      total == totalL1MessagePopped(chunks)
                  IN  IF DecodeBitmap(args.SkippedL1MessageBitmap, total) # Nil
                      THEN Failed(ErrDecodeBitmap, fetched.calls)
                      ELSE LET walk == collectL1TxsV1(w.db, args.SkippedL1MessageBitmap,
                                           parentTotalL1MessagePopped, total, 0,
                                           StartAt(parentTotalL1MessagePopped))
                           IN  IF walk.err # Nil THEN FailedWalk(walk, fetched.calls)
                               ELSE Decoded(NewCommitBatchDaV1(args.Version, batchIndex,
                                                parentTotalL1MessagePopped,
                                                args.SkippedL1MessageBitmap, chunks,
                                                walk.l1Txs, vLog.blockNumber),
                                            fetched.calls, walk)

decodeDAV2(batchIndex, vLog, args, w) ==
    IF ~args.Chunks.ok THEN Failed(ErrUnpackChunks, <<>>)
    ELSE LET chunks == args.Chunks.chunks
             fetched == fetchBlob(vLog, w, "codecv2.DecodeTxsFromBlob")
         IN  IF fetched.err # Nil THEN Failed(fetched.err, fetched.calls)
             ELSE IF HeaderTooShort(args.ParentBatchHeader) THEN Failed(Panic, fetched.calls)
             ELSE LET parentTotalL1MessagePopped ==
                          getBatchTotalL1MessagePopped(args.ParentBatchHeader)
                      total == totalL1MessagePopped(chunks)
                  IN  IF DecodeBitmap(args.SkippedL1MessageBitmap, total) # Nil
                      THEN Failed(ErrDecodeBitmap, fetched.calls)
                      ELSE LET walk == collectL1TxsV1(w.db, args.SkippedL1MessageBitmap,
                                           parentTotalL1MessagePopped, total, 0,
                                           StartAt(parentTotalL1MessagePopped))
                           IN  IF walk.err # Nil THEN FailedWalk(walk, fetched.calls)
                               ELSE Decoded(NewCommitBatchDaV2(args.Version, batchIndex,
                                                parentTotalL1MessagePopped,
                                                args.SkippedL1MessageBitmap, chunks,
                                                walk.l1Txs, vLog.blockNumber),
                                            fetched.calls, walk)

\* da.NewCommitBatchDAV0WithChunks: the reconciliation of decoded chunks with
\* the skip bitmap and the message store.
NewCommitBatchDAV0WithChunks(db, version, batchIndex, parentBatchHeader, decodedChunks, skippedL1MessageBitmap, l1BlockNumber) ==
    IF HeaderTooShort(parentBatchHeader) THEN Failed(Panic, <<>>)
    ELSE LET parentTotalL1MessagePopped == getBatchTotalL1MessagePopped(parentBatchHeader)
             total == totalL1MessagePopped(decodedChunks)
         IN  IF DecodeBitmap(skippedL1MessageBitmap, total) # Nil
             THEN Failed(ErrDecodeBitmap, <<>>)
             ELSE LET walk == collectL1TxsV0(db, skippedL1MessageBitmap,
                                  parentTotalL1MessagePopped, total, 0,
                                  StartAt(parentTotalL1MessagePopped))
                  IN  IF walk.err # Nil THEN FailedWalk(walk, <<>>)
                      ELSE Decoded(NewCommitBatchDaV0(version, batchIndex,
                                       parentTotalL1MessagePopped, skippedL1MessageBitmap,
                                       decodedChunks, walk.l1Txs, l1BlockNumber), <<>>, walk)

\* da.NewCommitBatchDAV1WithBlobDecodeFunc: the chunks, the versioned hash of
\* the transaction, the header of its block, the blob, its commitment and hash
\* recomputed and compared, the transactions decoded from the blob, then the
\* version-0 entry of the decoded chunks wrapped.
NewCommitBatchDAV1WithBlobDecodeFunc(vLog, version, batchIndex, parentBatchHeader, chunks, skippedL1MessageBitmap, w) ==
    IF ~chunks.ok THEN Failed(ErrUnpackChunks, <<>>)
    ELSE IF ~w.hashOk THEN Failed(ErrFetchBlobHash, <<"FetchTxBlobHash">>)
    ELSE IF ~w.headerOk
    THEN Failed(ErrGetHeader, <<"FetchTxBlobHash", "GetHeaderByNumber">>)
    ELSE LET versionedHash == vLog.blobHash
             got == <<"FetchTxBlobHash", "GetHeaderByNumber",
                      "GetBlobByVersionedHashAndBlockTime">>
         IN  IF ~w.blobOk THEN Failed(ErrFetchBlob, got)
             ELSE IF w.blobNil THEN Failed(ErrNilBlob, got)
             ELSE IF ~w.commitOk THEN Failed(ErrBlobCommitment, got)
             ELSE IF CalcBlobHashV1(BlobToCommitment(w.blob)) # versionedHash
             THEN Failed(ErrBlobHashMismatch, got)
             ELSE IF ~w.blobTxOk
             THEN Failed(ErrDecodeTxsFromBlob, Append(got, "decodeTxsFromBlobFunc"))
             ELSE LET v0 == NewCommitBatchDAV0WithChunks(w.db, version, batchIndex,
                                parentBatchHeader, chunks.chunks,
                                skippedL1MessageBitmap, vLog.blockNumber)
                      r == [v0 EXCEPT !.calls = Append(got, "decodeTxsFromBlobFunc") \o @]
                  IN  IF v0.err # Nil THEN r
                      ELSE [r EXCEPT !.entry.DaType = "CommitBatchV1"]

\* r, with the request c made before those r records.
After(c, r) == [r EXCEPT !.calls = <<c>> \o @]

\* The genesis entry: version 0, no parent, empty bitmap, chunks and messages,
\* block number 0.
GenesisDa(batchIndex) ==
    NewCommitBatchDaV0(0, batchIndex, 0, Bitmap(0, {}), <<>>, <<>>, 0)

\* A dispatcher that has no case for the genesis batch.
getCommitBatchDaFetchesGenesis(batchIndex, vLog, w) ==
    IF ~w.txOk THEN Failed(ErrFetchTxData, <<"fetchTxData">>)
    ELSE LET txData == vLog.tx IN
         IF txData.short THEN Failed(ErrTooShort, <<"fetchTxData">>)
         ELSE After("fetchTxData", decodeDAV0(batchIndex, vLog, txData.args, w))

\* getCommitBatchDa: the genesis batch needs no transaction; every other batch
\* is decoded from the call data of its transaction, by the decoder of the
\* method and version the call data names.
getCommitBatchDa(batchIndex, vLog, w) ==
    IF batchIndex = 0 THEN Decoded(GenesisDa(batchIndex), <<>>, NoWalk)
    ELSE IF ~w.txOk THEN Failed(ErrFetchTxData, <<"fetchTxData">>)
    ELSE LET txData == vLog.tx
             args == txData.args
         IN  IF txData.short THEN Failed(ErrTooShort, <<"fetchTxData">>)
             ELSE IF txData.method = "unknown" THEN Failed(ErrMethodById, <<"fetchTxData">>)
             ELSE IF ~txData.unpackOk THEN Failed(ErrUnpack, <<"fetchTxData">>)
             ELSE IF txData.method = "commitBatch"
             THEN IF ~txData.copyOk THEN Failed(ErrCopyArgs, <<"fetchTxData">>)
                  ELSE IF args.Version = 0
                  THEN After("fetchTxData", decodeDAV0(batchIndex, vLog, args, w))
                  ELSE IF args.Version = 1
                  THEN After("fetchTxData", decodeDAV1(batchIndex, vLog, args, w))
                  ELSE IF args.Version = 2
                  THEN After("fetchTxData", decodeDAV2(batchIndex, vLog, args, w))
                  ELSE Failed(ErrUnknownCodec, <<"fetchTxData">>)
             ELSE IF ~txData.copyOk THEN Failed(ErrCopyArgs, <<"fetchTxData">>)
                  ELSE After("fetchTxData", decodeDAV2(batchIndex, vLog, args, w))

\* What the decoders of the chains' logs meet: every message is in the store,
\* the blob is the transaction's; fetchTxData succeeds (txOk) or fails.
ChainWorld(txOk) == World(txOk, TRUE, TRUE, TRUE, FALSE, TRUE, TRUE, "blob", Nat)

\* A loop that puts every new entry before the ones made so far.
RECURSIVE processLogsFromNewestFirst(_, _, _, _)
processLogsFromNewestFirst(logs, i, da, failAt) ==
    IF i > Len(logs) THEN [da |-> da, err |-> Nil, info |-> <<>>]
    ELSE LET vLog == logs[i] IN
         IF vLog.topic = l1CommitBatchEventSignature
         THEN LET r == getCommitBatchDa(vLog.batchIndex, vLog, ChainWorld(failAt # i)) IN
              IF r.err # Nil
              THEN [da |-> <<>>, err |-> ErrCommitDa, info |-> <<vLog.batchIndex, r.err>>]
              ELSE processLogsFromNewestFirst(logs, i + 1, <<r.entry>> \o da, failAt)
         ELSE IF vLog.topic = l1RevertBatchEventSignature
         THEN processLogsFromNewestFirst(logs, i + 1,
                  <<NewRevertBatchDA(vLog.batchIndex)>> \o da, failAt)
         ELSE IF vLog.topic = l1FinalizeBatchEventSignature
         THEN processLogsFromNewestFirst(logs, i + 1,
                  <<NewFinalizeBatchDA(vLog.batchIndex)>> \o da, failAt)
         ELSE [da |-> <<>>, err |-> ErrUnknownEvent, info |-> <<vLog.topic, vLog.txHash>>]

\* A loop that passes over a log of an unknown topic.
RECURSIVE processLogsFromSkipsUnknown(_, _, _, _)
processLogsFromSkipsUnknown(logs, i, da, failAt) ==
    IF i > Len(logs) THEN [da |-> da, err |-> Nil, info |-> <<>>]
    ELSE LET vLog == logs[i] IN
         IF vLog.topic = l1CommitBatchEventSignature
         THEN LET r == getCommitBatchDa(vLog.batchIndex, vLog, ChainWorld(failAt # i)) IN
              IF r.err # Nil
              THEN [da |-> <<>>, err |-> ErrCommitDa, info |-> <<vLog.batchIndex, r.err>>]
              ELSE processLogsFromSkipsUnknown(logs, i + 1, Append(da, r.entry), failAt)
         ELSE IF vLog.topic = l1RevertBatchEventSignature
         THEN processLogsFromSkipsUnknown(logs, i + 1,
                  Append(da, NewRevertBatchDA(vLog.batchIndex)), failAt)
         ELSE IF vLog.topic = l1FinalizeBatchEventSignature
         THEN processLogsFromSkipsUnknown(logs, i + 1,
                  Append(da, NewFinalizeBatchDA(vLog.batchIndex)), failAt)
         ELSE processLogsFromSkipsUnknown(logs, i + 1, da, failAt)

\* The loop of processLogsToDA from log i on, da being the entries made so far.
\* failAt is the position of the log whose transaction cannot be fetched
\* (0: none). info is what the error names.
RECURSIVE processLogsFrom(_, _, _, _)

\* Mutant: a failed Commit log returns the entries made before it.
commitCaseKeepsPartial(logs, i, da, failAt, r) ==
    IF r.err # Nil
    THEN [da |-> da, err |-> ErrCommitDa, info |-> <<logs[i].batchIndex, r.err>>]
    ELSE processLogsFrom(logs, i + 1, Append(da, r.entry), failAt)

\* The Commit case once getCommitBatchDa returned r for log i.
commitCase(logs, i, da, failAt, r) ==
    IF r.err # Nil
    THEN [da |-> <<>>, err |-> ErrCommitDa, info |-> <<logs[i].batchIndex, r.err>>]
    ELSE processLogsFrom(logs, i + 1, Append(da, r.entry), failAt)

processLogsFrom(logs, i, da, failAt) ==
    IF i > Len(logs) THEN [da |-> da, err |-> Nil, info |-> <<>>]
    ELSE LET vLog == logs[i] IN
         IF vLog.topic = l1CommitBatchEventSignature
         THEN commitCase(logs, i, da, failAt,
                  getCommitBatchDa(vLog.batchIndex, vLog, ChainWorld(failAt # i)))
         ELSE IF vLog.topic = l1RevertBatchEventSignature
         THEN processLogsFrom(logs, i + 1, Append(da, NewRevertBatchDA(vLog.batchIndex)), failAt)
         ELSE IF vLog.topic = l1FinalizeBatchEventSignature
         THEN processLogsFrom(logs, i + 1, Append(da, NewFinalizeBatchDA(vLog.batchIndex)), failAt)
         ELSE [da |-> <<>>, err |-> ErrUnknownEvent, info |-> <<vLog.topic, vLog.txHash>>]

processLogsToDA(logs, failAt) == processLogsFrom(logs, 1, <<>>, failAt)

\* ------------------------------------------------------ CalldataBlobSource
\* The context of the consumer's calls when it uses one context only.
Background == "ctx1"

\* A DataSource reference: nil, or a CalldataBlobSource with the context it was
\* constructed with and its cursor.
NoSource == [open |-> FALSE, ctx |-> Background, l1height |-> 0]

NewCalldataBlobSource(ctx0, l1height0) == [open |-> TRUE, ctx |-> ctx0, l1height |-> l1height0]

\* The requests of NextData go out under the context of the source: under a
\* cancelled context the first of them, the finalized block number, fails.
Reachable(ds, cancelled0, in) == ds.ctx \in cancelled0 => ~in.finOk

\* Mutant: the last height processed instead of the next one to process.
L1HeightLastProcessed(ds) == IF ds.l1height > 0 THEN ds.l1height - 1 ELSE 0

\* Mutant: one height past the cursor.
L1HeightSkipsOne(ds) == ds.l1height + 1

L1Height(ds) == ds.l1height

\* Mutant: the window is not capped by the finalized block number.
RangeToUncapped(cursor, l1Finalized0) == cursor + callDataBlobSourceFetchBlockRange

\* The upper bound of the range NextData fetches.
RangeTo(cursor, l1Finalized0) ==
    LET to == cursor + callDataBlobSourceFetchBlockRange
    IN  IF to > l1Finalized0 THEN l1Finalized0 ELSE to

\* Mutant: the test lets the height after the finalized one through.
SourceExhaustedOffByOne(cursor, to) == cursor > to + 1

\* The test NextData makes before it fetches.
SourceExhausted(cursor, to) == cursor > to

\* Mutant: the cursor advances whatever processLogsToDA returned.
NextCursorIgnoresError(cursor, to, err) == to + 1

\* Mutant: a failed decode moves the cursor past the first height of the range.
NextCursorPartial(cursor, to, err) == IF err = Nil THEN to + 1 ELSE cursor + 1

\* Mutant: the cursor stops on the last height of the range.
NextCursorRepeatsLast(cursor, to, err) == IF err = Nil THEN to ELSE cursor

\* The cursor NextData leaves behind, err being the result of processLogsToDA.
NextCursor(cursor, to, err) == IF err = Nil THEN to + 1 ELSE cursor

\* What the factory, the L1 client and the transactions do in one invocation of
\* getNextData: all succeed, or the first of them to fail ends the invocation.
Inputs ==
    {[openOk |-> o, finOk |-> f, fetchOk |-> e, failAt |-> 0] :
        <<o, f, e>> \in {<<FALSE, TRUE, TRUE>>, <<TRUE, FALSE, TRUE>>, <<TRUE, TRUE, FALSE>>}}
    \cup {[openOk |-> TRUE, finOk |-> TRUE, fetchOk |-> TRUE, failAt |-> k] : k \in 0..MaxFailAt}

\* What NextData returns once processLogsToDA returned r for the range up to
\* to: the cursor moves past the range if r is no error.
processed(ds, to, r) ==
    [ds |-> [ds EXCEPT !.l1height = NextCursor(ds.l1height, to, r.err)],
     da |-> r.da, err |-> r.err, info |-> r.info, to |-> to, fetched |-> TRUE]

\* CalldataBlobSource.NextData on source ds of chain c, the finalized block
\* number being fin. fetched: fetchRollupEventsInRange was called.
NextData(ds, c, fin, in) ==
    IF ~in.finOk
    THEN [ds |-> ds, da |-> <<>>, err |-> ErrFinalized, info |-> <<>>,
          to |-> ds.l1height + callDataBlobSourceFetchBlockRange, fetched |-> FALSE]
    ELSE LET to == RangeTo(ds.l1height, fin) IN
         IF SourceExhausted(ds.l1height, to)
         THEN [ds |-> ds, da |-> <<>>, err |-> sourceExhaustedErr, info |-> <<>>,
               to |-> to, fetched |-> FALSE]
         ELSE IF ~in.fetchOk
         THEN [ds |-> ds, da |-> <<>>, err |-> ErrEvents, info |-> <<>>,
               to |-> to, fetched |-> TRUE]
         ELSE processed(ds, to,
                  processLogsToDA(fetchRollupEventsInRange(c, ds.l1height, to), in.failAt))

\* ----------------------------------------------------------------- DAQueue
NewDAQueue(l1height0) == [l1height |-> l1height0, dataSource |-> NoSource, da |-> <<>>]

\* DataSourceFactory.OpenDataSource: a source at the given height, or an error.
OpenDataSource(ctx0, l1height0, ok) ==
    IF ok THEN [src |-> NewCalldataBlobSource(ctx0, l1height0), err |-> Nil]
    ELSE [src |-> NoSource, err |-> ErrOpen]

NoCall ==
    [ds |-> NoSource, da |-> <<>>, err |-> Nil, info |-> <<>>, to |-> 0, fetched |-> FALSE]

\* A queue that drops the source on every error of NextData.
receivedDropsSource(q, src, nd) ==
    IF nd.err = errSourceExhausted
    THEN [q |-> [l1height |-> L1Height(nd.ds), dataSource |-> NoSource, da |-> nd.da],
          err |-> Nil, again |-> TRUE, called |-> TRUE, src |-> src, nd |-> nd]
    ELSE [q |-> [l1height |-> q.l1height,
                 dataSource |-> IF nd.err = Nil THEN nd.ds ELSE NoSource,
                 da |-> nd.da],
          err |-> nd.err, again |-> FALSE, called |-> TRUE, src |-> src, nd |-> nd]

\* Mutant: the Exhausted sentinel is returned to the caller like any error.
receivedReturnsExhausted(q, src, nd) ==
    [q |-> [l1height |-> q.l1height, dataSource |-> nd.ds, da |-> nd.da],
     err |-> nd.err, again |-> FALSE, called |-> TRUE, src |-> src, nd |-> nd]

\* getNextData once NextData returned nd on source src: the buffer takes the
\* entries; on the Exhausted sentinel the watermark takes the cursor, the source
\* is dropped and getNextData calls itself (again).
received(q, src, nd) ==
    IF nd.err = errSourceExhausted
    THEN [q |-> [l1height |-> L1Height(nd.ds), dataSource |-> NoSource, da |-> nd.da],
          err |-> Nil, again |-> TRUE, called |-> TRUE, src |-> src, nd |-> nd]
    ELSE [q |-> [l1height |-> q.l1height, dataSource |-> nd.ds, da |-> nd.da],
          err |-> nd.err, again |-> FALSE, called |-> TRUE, src |-> src, nd |-> nd]

\* Mutant: getNextData drops the source on every error of NextData, not on the
\* Exhausted sentinel alone.
getNextDataDropsSource(ctx0, q, c, fin, in) ==
    LET o == IF ~q.dataSource.open THEN OpenDataSource(ctx0, q.l1height, in.openOk)
             ELSE [src |-> q.dataSource, err |-> Nil]
    IN  IF o.err # Nil
        THEN [q |-> [q EXCEPT !.dataSource = o.src], err |-> o.err, again |-> FALSE,
              called |-> FALSE, src |-> o.src, nd |-> NoCall]
        ELSE receivedDropsSource(q, o.src, NextData(o.src, c, fin, in))

\* One invocation of DAQueue.getNextData on queue q, up to its return or to its
\* recursive call (again). src is the source NextData was called on (called).
getNextData(ctx0, q, c, fin, in) ==
    LET o == IF ~q.dataSource.open THEN OpenDataSource(ctx0, q.l1height, in.openOk)
             ELSE [src |-> q.dataSource, err |-> Nil]
    IN  IF o.err # Nil
        THEN [q |-> [q EXCEPT !.dataSource = o.src], err |-> o.err, again |-> FALSE,
              called |-> FALSE, src |-> o.src, nd |-> NoCall]
        ELSE received(q, o.src, NextData(o.src, c, fin, in))

\* Mutant: NextDA returns the last entry of the buffer.
DequeueLast(buf) == [daEntry |-> buf[Len(buf)], da |-> SubSeq(buf, 1, Len(buf) - 1)]

\* Mutant: NextDA returns the first entry and leaves it in the buffer.
DequeueKeeps(buf) == [daEntry |-> buf[1], da |-> buf]

\* The entry NextDA returns from a non-empty buffer, and the buffer it leaves.
Dequeue(buf) == [daEntry |-> buf[1], da |-> Tail(buf)]

\* ------------------------------------------------------------------- state
VARIABLES
    chain,        \* the L1 chain the syncer reads
    l1Finalized,  \* the finalized block number of the L1 chain
    l1height,     \* DAQueue.l1height, the watermark
    dataSource,   \* DAQueue.dataSource
    da,           \* DAQueue.da, the buffer
    pc,           \* where the consumer is: "idle", or inside NextDA at "loop" / "getNextData"
    ret,          \* what the last NextDA call returned
    initHeight,   \* history: the height the queue was constructed at
    lastND,       \* history: the last NextData call
    ranges,       \* history: the ranges NextData processed successfully, in order
    srcBase,      \* history: Len(ranges) when the current source was opened
    srcStart,     \* history: the height the current source was opened at
    delivered,    \* history: the entries NextDA returned, in order
    depth,        \* the invocations of getNextData on the stack of the NextDA call
    contexts,     \* the contexts the consumer calls NextDA with
    cancelled,    \* the contexts that are cancelled
    ctx,          \* the context of the current (or last) NextDA call
    atCall,       \* history: the queue when NextDA was last called under a cancelled context
    decIn,        \* a commit transaction handed to getCommitBatchDa, and its surroundings
    decOut        \* what getCommitBatchDa returned for decIn

queueVars == <<chain, l1Finalized, l1height, dataSource, da, pc, ret,
               initHeight, lastND, ranges, srcBase, srcStart, delivered, depth>>

ctxVars == <<contexts, cancelled, ctx, atCall>>

decodeVars == <<decIn, decOut>>

vars == <<queueVars, ctxVars, decodeVars>>

\* ------------------------------------------------------------ decode inputs
\* The stages of getCommitBatchDa that depend on the world, by the part that
\* fails: none, or the first of them.
Stages ==
    {"none", "txData", "short", "unpack", "copy", "chunks",
     "blobHash", "header", "blob", "nilBlob", "commitment", "blobTxs"}

\* The methods a transaction's first four bytes may name: the two commit
\* methods of the ABI, or none of its methods.
Methods == {"commitBatch", "commitBatchWithBlobProof", "unknown"}

\* The versions call data may carry: 0, 1 and 2, and one that no codec has.
Versions == 0..3

\* The chunks of a batch of t slots: one block, or two chunks, or no chunk.
Layouts(t) ==
    {<< <<t>> >>}
    \cup (IF t >= 2 THEN {<< <<1>>, <<t - 1>> >>} ELSE {})
    \cup (IF t = 0 THEN {<<>>} ELSE {})

ChunkLayouts == UNION {Layouts(t) : t \in 0..MaxTotal}

\* The skip bitmaps: empty, one whole word with any bits set, or a ragged one.
Bitmaps ==
    {Bitmap(0, {}), Bitmap(WordBits - 1, {})}
    \cup {Bitmap(WordBits, b) : b \in SUBSET (0..(WordBits - 1))}

\* The parent headers: whole, with any count of messages popped, or cut short.
Headers ==
    {BatchHeader(n) : n \in 0..MaxParent}
    \cup {SubSeq(BatchHeader(0), 1, 24)}

\* The queue indices of the messages L1 has sent.
MessageIndices == 0..(MaxParent + WordBits)

\* The indices the message store may lack: none, one or two.
Gaps ==
    {m \in SUBSET (0..MaxMissing) : Cardinality(m) <= 2}

DecodeInput(batchIndex, method, version, stage, blob, header, chunks, bitmap, missing) ==
    [batchIndex |-> batchIndex, method |-> method, version |-> version,
     stage |-> stage, blob |-> blob, header |-> header, chunks |-> chunks,
     bitmap |-> bitmap, missing |-> missing]

\* The commit log of the transaction of input in.
DecodeLog(in) ==
    [topic |-> l1CommitBatchEventSignature, batchIndex |-> in.batchIndex,
     blockNumber |-> 1,
     txHash |-> <<1, l1CommitBatchEventSignature, in.batchIndex>>,
     tx |-> TxData(in.stage = "short", in.method, in.stage # "unpack",
                   in.stage # "copy", in.version, in.header, in.stage # "chunks",
                   in.chunks, in.bitmap),
     blobHash |-> CalcBlobHashV1(BlobToCommitment("blob"))]

DecodeWorld(in) ==
    World(in.stage # "txData", in.stage # "blobHash", in.stage # "header",
          in.stage # "blob", in.stage = "nilBlob", in.stage # "commitment",
          in.stage # "blobTxs", in.blob, MessageIndices \ in.missing)

NoDecodeInput == DecodeInput(0, "unknown", 0, "none", "blob", <<>>, <<>>, Bitmap(0, {}), {})

\* by: "getCommitBatchDa" or "NewCommitBatchDAV1", the routine that decoded.
NotDecoded == [done |-> FALSE, by |-> "none", r |-> Failed(Nil, <<>>)]

NoSnapshot == [cancelled |-> FALSE, l1height |-> 0, da |-> <<>>, dataSource |-> NoSource]

NoNextData ==
    [called |-> FALSE, from |-> 0, finOk |-> FALSE, fin |-> 0, to |-> 0,
     fetched |-> FALSE, err |-> Nil, info |-> <<>>, after |-> 0,
     retry |-> FALSE, prevFrom |-> 0, prevTo |-> 0, prevFin |-> 0, fresh |-> FALSE]

Queue == [l1height |-> l1height, dataSource |-> dataSource, da |-> da]

Init ==
    /\ chain \in Chains
    /\ l1Finalized \in 0..MaxHeight
    /\ initHeight \in 0..MaxInitHeight
    /\ l1height = NewDAQueue(initHeight).l1height
    /\ dataSource = NewDAQueue(initHeight).dataSource
    /\ da = NewDAQueue(initHeight).da
    /\ pc = "idle"
    /\ ret = [daEntry |-> NoEntry, err |-> Nil]
    /\ lastND = NoNextData
    /\ ranges = <<>>
    /\ srcBase = 0
    /\ srcStart = 0
    /\ delivered = <<>>
    /\ depth = 0
    /\ contexts = {Background}
    /\ cancelled = {}
    /\ ctx = Background
    /\ atCall = NoSnapshot
    /\ decIn = NoDecodeInput
    /\ decOut = NotDecoded

\* The L1 chain finalizes further blocks.
Finalize ==
    /\ \E h \in (l1Finalized + 1)..MaxHeight : l1Finalized' = h
    /\ UNCHANGED <<chain, l1height, dataSource, da, pc, ret,
                   initHeight, lastND, ranges, srcBase, srcStart, delivered, depth>>
    /\ UNCHANGED <<ctxVars, decodeVars>>

\* The consumer calls NextDA with one of its contexts.
CallNextDA ==
    /\ pc = "idle"
    /\ pc' = "loop"
    /\ ret' = [daEntry |-> NoEntry, err |-> "pending"]
    /\ \E c \in contexts :
          /\ ctx' = c
          /\ atCall' = IF c \in cancelled
                       THEN [cancelled |-> TRUE, l1height |-> l1height, da |-> da,
                             dataSource |-> dataSource]
                       ELSE NoSnapshot
    /\ UNCHANGED <<chain, l1Finalized, l1height, dataSource, da,
                   initHeight, lastND, ranges, srcBase, srcStart, delivered, depth>>
    /\ UNCHANGED <<contexts, cancelled, decodeVars>>

\* NextDA: the buffer is empty, the loop calls getNextData.
LoopRefill ==
    /\ pc = "loop"
    /\ Len(da) = 0
    /\ pc' = "getNextData"
    /\ depth' = 1
    /\ UNCHANGED <<chain, l1Finalized, l1height, dataSource, da, ret,
                   initHeight, lastND, ranges, srcBase, srcStart, delivered>>
    /\ UNCHANGED <<ctxVars, decodeVars>>

\* NextDA: the buffer is not empty, its first entry is returned.
LoopReturn ==
    /\ pc = "loop"
    /\ Len(da) # 0
    /\ da' = Dequeue(da).da
    /\ ret' = [daEntry |-> Dequeue(da).daEntry, err |-> Nil]
    /\ delivered' = Append(delivered, Dequeue(da).daEntry)
    /\ pc' = "idle"
    /\ UNCHANGED <<chain, l1Finalized, l1height, dataSource,
                   initHeight, lastND, ranges, srcBase, srcStart, depth>>
    /\ UNCHANGED <<ctxVars, decodeVars>>

\* The record of the NextData call made inside invocation g of getNextData.
Observe(g, wasOpen) ==
    LET retry == /\ wasOpen
                 /\ lastND.called
                 /\ lastND.err \in RangeErrors
                 /\ g.nd.fetched
    IN  [called |-> TRUE, from |-> g.src.l1height,
         finOk |-> g.nd.err # ErrFinalized,
         fin |-> IF g.nd.err # ErrFinalized THEN l1Finalized ELSE 0,
         to |-> IF g.nd.err # ErrFinalized THEN g.nd.to ELSE 0,
         fetched |-> g.nd.fetched, err |-> g.nd.err, info |-> g.nd.info,
         after |-> g.nd.ds.l1height,
         retry |-> retry,
         prevFrom |-> IF retry THEN lastND.from ELSE 0,
         prevTo |-> IF retry THEN lastND.to ELSE 0,
         prevFin |-> IF retry THEN lastND.fin ELSE 0,
         fresh |-> ~wasOpen]

\* One invocation of getNextData with inputs in, ending as `outcome` says.
Refill(in, outcome) ==
    /\ pc = "getNextData"
    /\ \E g \in {getNextData(ctx, Queue, chain, l1Finalized, in)} :
       LET opened == ~dataSource.open /\ g.src.open
       IN  /\ g.called => Reachable(g.src, cancelled, in)
           /\ g.again => depth < MaxDepth
           /\ outcome = (IF ~g.called THEN "openFailed"
                         ELSE IF g.again THEN "exhausted"
                         ELSE IF g.err # Nil THEN "failed" ELSE "refilled")
           /\ l1height' = g.q.l1height
           /\ dataSource' = g.q.dataSource
           /\ da' = g.q.da
           /\ pc' = IF g.again THEN "getNextData"
                    ELSE IF g.err # Nil THEN "idle" ELSE "loop"
           /\ ret' = IF ~g.again /\ g.err # Nil
                     THEN [daEntry |-> NoEntry, err |-> g.err] ELSE ret
           /\ lastND' = IF g.called THEN Observe(g, dataSource.open) ELSE lastND
           /\ ranges' = IF g.called /\ g.nd.err = Nil
                        THEN Append(ranges, <<g.src.l1height, g.nd.to>>) ELSE ranges
           /\ srcBase' = IF opened THEN Len(ranges) ELSE srcBase
           /\ srcStart' = IF opened THEN g.src.l1height ELSE srcStart
           /\ depth' = IF g.again THEN depth + 1 ELSE 0
    /\ UNCHANGED <<chain, l1Finalized, initHeight, delivered>>
    /\ UNCHANGED <<ctxVars, decodeVars>>

\* getNextData: OpenDataSource fails, NextDA returns its error.
RefillOpenFails == \E in \in Inputs : Refill(in, "openFailed")

\* getNextData: the source is exhausted, the queue drops it and calls itself,
\* one invocation deeper; the invocations return together.
RefillExhausted == \E in \in Inputs : Refill(in, "exhausted")

\* getNextData: NextData fails, NextDA returns its error.
RefillFails == \E in \in Inputs : Refill(in, "failed")

\* getNextData: NextData returns the entries of a range.
RefillSucceeds == \E in \in Inputs : Refill(in, "refilled")

Next ==
    \/ Finalize
    \/ CallNextDA
    \/ LoopRefill
    \/ LoopReturn
    \/ RefillOpenFails
    \/ RefillExhausted
    \/ RefillFails
    \/ RefillSucceeds

Spec == Init /\ [][Next]_vars

\* ------------------------------------------------------------ cancellation
\* A consumer with two contexts, either of which may be cancelled at any time,
\* on a chain finalized up to its last block or the one before.
InitCancel ==
    /\ chain = "dense"
    /\ l1Finalized \in (MaxHeight - 1)..MaxHeight
    /\ initHeight = 0
    /\ l1height = NewDAQueue(initHeight).l1height
    /\ dataSource = NewDAQueue(initHeight).dataSource
    /\ da = NewDAQueue(initHeight).da
    /\ pc = "idle"
    /\ ret = [daEntry |-> NoEntry, err |-> Nil]
    /\ lastND = NoNextData
    /\ ranges = <<>>
    /\ srcBase = 0
    /\ srcStart = 0
    /\ delivered = <<>>
    /\ depth = 0
    /\ contexts = {"ctx1", "ctx2"}
    /\ cancelled = {}
    /\ ctx = Background
    /\ atCall = NoSnapshot
    /\ decIn = NoDecodeInput
    /\ decOut = NotDecoded

\* A context of the consumer is cancelled.
Cancel ==
    /\ \E c \in contexts \ cancelled : cancelled' = cancelled \cup {c}
    /\ UNCHANGED <<queueVars, contexts, ctx, atCall, decodeVars>>

NextCancel ==
    \/ Cancel
    \/ Finalize
    \/ CallNextDA
    \/ LoopRefill
    \/ LoopReturn
    \/ RefillOpenFails
    \/ RefillExhausted
    \/ RefillFails
    \/ RefillSucceeds

SpecCancel == InitCancel /\ [][NextCancel]_vars

\* ------------------------------------------------------------------ progress
\* A queue whose L1 client, factory and transactions never fail, on a chain
\* whose logs all decode.
InitLive ==
    /\ chain \in {"dense", "sparse"}
    /\ l1Finalized \in 0..MaxHeight
    /\ initHeight \in 0..MaxInitHeight
    /\ l1height = NewDAQueue(initHeight).l1height
    /\ dataSource = NewDAQueue(initHeight).dataSource
    /\ da = NewDAQueue(initHeight).da
    /\ pc = "idle"
    /\ ret = [daEntry |-> NoEntry, err |-> Nil]
    /\ lastND = NoNextData
    /\ ranges = <<>>
    /\ srcBase = 0
    /\ srcStart = 0
    /\ delivered = <<>>
    /\ depth = 0
    /\ contexts = {Background}
    /\ cancelled = {}
    /\ ctx = Background
    /\ atCall = NoSnapshot
    /\ decIn = NoDecodeInput
    /\ decOut = NotDecoded

\* The factory, the L1 client and the transactions all succeed.
NoFailure == [openOk |-> TRUE, finOk |-> TRUE, fetchOk |-> TRUE, failAt |-> 0]

\* getNextData when nothing fails, ending as the code makes it end.
RefillNoFailure ==
    \E outcome \in {"openFailed", "exhausted", "failed", "refilled"} :
       Refill(NoFailure, outcome)

NextLive ==
    \/ Finalize
    \/ CallNextDA
    \/ LoopRefill
    \/ LoopReturn
    \/ RefillNoFailure

\* A refill step can be taken: the invocation the model caps the nesting at
\* performs it only if its source is not exhausted.
RefillEnabled ==
    /\ pc = "getNextData"
    /\ depth < MaxDepth \/ l1Finalized >= (IF dataSource.open THEN dataSource.l1height ELSE l1height)

\* A call of NextDA runs on until it returns, and the chain goes on finalizing
\* blocks; the consumer may stop calling. The last conjunct is weak fairness of
\* the refill step written on states: every refill step changes pc or depth,
\* so a refill that stays enabled and is never taken keeps both forever.
Fairness ==
    /\ WF_vars(LoopRefill)
    /\ WF_vars(LoopReturn)
    /\ WF_vars(Finalize)
    /\ \A d \in 1..MaxDepth : []<>~(RefillEnabled /\ depth = d)

SpecLive == InitLive /\ [][NextLive]_vars /\ Fairness

\* ------------------------------------------------------------------ decoding
\* getCommitBatchDa on one commit transaction: every stage succeeding and the
\* call data, the bitmap and the store varying; or one stage failing, the blob
\* forged, the header cut or the method unknown, on a few call data; or the
\* genesis batch.
InitDecode ==
    /\ chain = "dense"
    /\ l1Finalized = 0
    /\ initHeight = 0
    /\ l1height = NewDAQueue(initHeight).l1height
    /\ dataSource = NewDAQueue(initHeight).dataSource
    /\ da = NewDAQueue(initHeight).da
    /\ pc = "idle"
    /\ ret = [daEntry |-> NoEntry, err |-> Nil]
    /\ lastND = NoNextData
    /\ ranges = <<>>
    /\ srcBase = 0
    /\ srcStart = 0
    /\ delivered = <<>>
    /\ depth = 0
    /\ contexts = {Background}
    /\ cancelled = {}
    /\ ctx = Background
    /\ atCall = NoSnapshot
    /\ \/ \E m \in {"commitBatch", "commitBatchWithBlobProof"}, v \in Versions,
             n \in 0..MaxParent, c \in ChunkLayouts, b \in Bitmaps, g \in Gaps :
             decIn = DecodeInput(1, m, v, "none", "blob", BatchHeader(n), c, b, g)
       \/ \E i \in {0, 1}, m \in Methods, v \in Versions, s \in Stages,
             bl \in {"blob", "forged"}, h \in Headers, c \in {<<>>, << <<2>> >>} :
             decIn = DecodeInput(i, m, v, s, bl, h, c, Bitmap(WordBits, {1}), {})
       \/ \E v \in Versions, b \in Bitmaps, g \in Gaps :
             decIn = DecodeInput(0, "commitBatch", v, "none", "blob", BatchHeader(0),
                                 << <<2>> >>, b, g)
    /\ decOut = NotDecoded

\* The source decodes the commit log of the transaction.
Decode ==
    /\ ~decOut.done
    /\ decOut' = [done |-> TRUE, by |-> "getCommitBatchDa",
                  r |-> getCommitBatchDa(decIn.batchIndex, DecodeLog(decIn), DecodeWorld(decIn))]
    /\ UNCHANGED <<queueVars, ctxVars, decIn>>

\* The da package constructs the version-1 entry of the transaction.
ConstructV1 ==
    /\ ~decOut.done
    /\ decIn.version = 1
    /\ decIn.stage \notin {"txData", "short", "unpack", "copy"}
    /\ decIn.method = "commitBatch"
    /\ decOut' = [done |-> TRUE, by |-> "NewCommitBatchDAV1",
                  r |-> LET tx == DecodeLog(decIn).tx.args IN
                        NewCommitBatchDAV1WithBlobDecodeFunc(DecodeLog(decIn), tx.Version,
                            decIn.batchIndex, tx.ParentBatchHeader, tx.Chunks,
                            tx.SkippedL1MessageBitmap, DecodeWorld(decIn))]
    /\ UNCHANGED <<queueVars, ctxVars, decIn>>

NextDecode ==
    \/ Decode
    \/ ConstructV1

SpecDecode == InitDecode /\ [][NextDecode]_vars

\* ------------------------------------------------------------------ claims
Min(a, b) == IF a < b THEN a ELSE b

\* C1: the cursor of a source changes in a NextData call only when the
\* finalized-height query, the log fetch and the decode of every log succeed,
\* and then it becomes to + 1; after a call that returns an error the cursor is
\* what it was before the call.
C1_CursorAdvancesOnlyOnFullSuccess ==
    /\ lastND.called =>
         /\ (lastND.after # lastND.from =>
               lastND.finOk /\ lastND.fetched /\ lastND.err = Nil)
         /\ (lastND.err = Nil => lastND.after = lastND.to + 1)
         /\ (lastND.err \in HardErrors => lastND.after = lastND.from)
    /\ dataSource.open => lastND.called /\ dataSource.l1height = lastND.after

\* A source that processed a range and then failed to decode the next one.
C1_Witness ==
    /\ dataSource.open
    /\ Len(ranges) > srcBase
    /\ lastND.err = ErrCommitDa
    /\ lastND.after = lastND.from

\* C2: a NextData call that reads a finalized height below the cursor returns
\* the Exhausted sentinel, fetches no logs and leaves the cursor unchanged.
C2_ExhaustedBelowCursor ==
    (lastND.called /\ lastND.finOk /\ lastND.fin < lastND.from) =>
        /\ lastND.err = sourceExhaustedErr
        /\ ~lastND.fetched
        /\ lastND.after = lastND.from

\* A call with the finalized height below the cursor of a source that advanced.
C2_Witness ==
    /\ lastND.called /\ lastND.finOk
    /\ lastND.fin < lastND.from
    /\ lastND.from > initHeight
    /\ lastND.err = sourceExhaustedErr

\* C3: the upper bound of every fetched range is
\* min(cursor + WINDOW - 1, finalizedHeight), so a step covers at most WINDOW
\* heights.
C3_WindowUpperBound ==
    lastND.fetched =>
        /\ lastND.to = Min(lastND.from + callDataBlobSourceFetchBlockRange - 1, lastND.fin)
        /\ lastND.to - lastND.from + 1 <= callDataBlobSourceFetchBlockRange

\* C4 as stated: the fetching call that follows a failed fetch or decode on the
\* same source has the bounds of the failed call.
C4_RetryIdenticalRange ==
    lastND.retry => lastND.from = lastND.prevFrom /\ lastND.to = lastND.prevTo

\* C4 as amended: the fetching call that follows a failed fetch or decode on
\* the same source starts at the lower bound of the failed call; its upper
\* bound is that of the failed call whenever it reads the same finalized
\* height.
C4_RetrySameStart ==
    lastND.retry =>
        /\ lastND.from = lastND.prevFrom
        /\ (lastND.fin = lastND.prevFin => lastND.to = lastND.prevTo)

\* A retry after the finalized height moved, and one that read the same height.
C4_Witness ==
    /\ lastND.retry
    /\ lastND.fin # lastND.prevFin
    /\ lastND.to # lastND.prevTo
    /\ lastND.from = lastND.prevFrom

\* The ranges the current source processed successfully.
SourceRanges == SubSeq(ranges, srcBase + 1, Len(ranges))

\* C5: the ranges one source processed successfully are non-empty and
\* contiguous: the first starts at the source's initial cursor, each later one
\* at the previous one's to + 1; the cursor is past the last of them and grew
\* in the last successful call.
C5_SourceRangesContiguous ==
    /\ \A i \in 1..Len(SourceRanges) :
         /\ SourceRanges[i][1] <= SourceRanges[i][2]
         /\ SourceRanges[i][1] = IF i = 1 THEN srcStart ELSE SourceRanges[i - 1][2] + 1
    /\ dataSource.open =>
         dataSource.l1height = IF SourceRanges = <<>> THEN srcStart
                               ELSE SourceRanges[Len(SourceRanges)][2] + 1
    /\ (lastND.called /\ lastND.err = Nil) => lastND.after > lastND.from

\* A source with two successful ranges whose last call failed.
C5_Witness ==
    /\ dataSource.open
    /\ Len(SourceRanges) >= 2
    /\ lastND.err \in HardErrors

\* C6: no NextData call fetches beyond the finalized height it read, and no
\* buffered entry comes from a block beyond it.
C6_FetchBelowFinalized ==
    /\ lastND.fetched => lastND.to <= lastND.fin
    /\ \A i \in 1..Len(da) : da[i].L1BlockNumber <= l1Finalized

\* A fetch whose window was cut at the finalized height.
C6_Witness ==
    /\ lastND.fetched
    /\ lastND.to = lastND.fin
    /\ lastND.fin < lastND.from + callDataBlobSourceFetchBlockRange
    /\ Len(da) > 0

\* The entry a log decodes to when its transaction decodes.
EntryOf(vLog) ==
    IF vLog.topic = l1CommitBatchEventSignature
    THEN getCommitBatchDa(vLog.batchIndex, vLog, ChainWorld(TRUE)).entry
    ELSE IF vLog.topic = l1RevertBatchEventSignature
    THEN NewRevertBatchDA(vLog.batchIndex)
    ELSE IF vLog.topic = l1FinalizeBatchEventSignature
    THEN NewFinalizeBatchDA(vLog.batchIndex)
    ELSE NoEntry

\* The entries of the logs of chain c from height from on, in emission order.
SourceOrder(c, from) ==
    LET logs == fetchRollupEventsInRange(c, from, MaxHeight)
    IN  [i \in 1..Len(logs) |-> EntryOf(logs[i])]

IsPrefix(s, t) == Len(s) <= Len(t) /\ \A i \in 1..Len(s) : s[i] = t[i]

\* C7: the entries NextDA returned, in the order it returned them, are an
\* initial segment of the entries of the chain's logs in emission order from
\* the queue's initial height on: within a range in log order, and an earlier
\* range before a later one.
C7_ReturnedInSourceOrder == IsPrefix(delivered, SourceOrder(chain, initHeight))

\* Entries of two ranges were returned, the second range fetched by a later
\* source than the first.
C7_Witness ==
    /\ Len(ranges) >= 2
    /\ srcBase >= 1
    /\ Len(delivered) >= 3
    /\ delivered[Len(delivered)].L1BlockNumber > ranges[1][2]

\* C8: the watermark of the queue never decreases.
C8_WatermarkMonotone == [][l1height' >= l1height]_vars

\* The watermark moved past the initial height, and NextDA calls returned
\* errors on the way.
C8_Witness ==
    /\ l1height > initHeight
    /\ ret.err = ErrOpen
    /\ lastND.err = sourceExhaustedErr

\* The height after the last range processed successfully by any source.
NextUnprocessed == IF ranges = <<>> THEN initHeight ELSE ranges[Len(ranges)][2] + 1

\* C9: when a source returns Exhausted the queue takes that source's cursor as
\* its watermark and drops the source, and the next source starts at the
\* watermark; so the ranges processed successfully by all sources together are
\* non-empty and contiguous from the queue's initial height, as those of one
\* source would be.
C9_RotationKeepsPosition ==
    /\ \A i \in 1..Len(ranges) :
         /\ ranges[i][1] <= ranges[i][2]
         /\ ranges[i][1] = IF i = 1 THEN initHeight ELSE ranges[i - 1][2] + 1
    /\ IF dataSource.open
       THEN srcStart = l1height /\ dataSource.l1height = NextUnprocessed
       ELSE l1height = NextUnprocessed
    /\ (lastND.called /\ lastND.err = sourceExhaustedErr /\ ~dataSource.open) =>
          l1height = lastND.after
    /\ (lastND.called /\ lastND.fresh) => lastND.from = srcStart

\* A second source, opened after the first one was exhausted past the initial
\* height, processed a range.
C9_Witness ==
    /\ dataSource.open
    /\ srcBase >= 1
    /\ Len(ranges) > srcBase
    /\ l1height > initHeight

\* A getNextData invocation in which NextData failed with a hard error.
HardFailureStep == pc = "getNextData" /\ pc' = "idle" /\ ret'.err \in HardErrors

\* C10: when NextData fails with a hard error inside a refill, NextDA returns
\* that error and no entry, the buffer stays empty, the watermark is unchanged,
\* the source that failed stays open with the cursor it had, and the next
\* NextData call starts at the same cursor.
C10_HardFailureLeavesState ==
    [][ /\ HardFailureStep =>
            /\ ret'.daEntry = NoEntry
            /\ ret'.err = lastND'.err
            /\ da = <<>> /\ da' = da
            /\ l1height' = l1height
            /\ dataSource'.open
            /\ dataSource'.l1height = lastND'.from
            /\ dataSource.open => dataSource' = dataSource
        /\ (lastND.called /\ lastND.err \in HardErrors) =>
            lastND'.from = lastND.from ]_vars

\* A NextDA call that returned a hard error of a retried range.
C10_Witness ==
    /\ pc = "idle"
    /\ ret.err \in HardErrors
    /\ lastND.retry
    /\ Len(ranges) >= 1

\* The next height to fetch, as the queue with watermark h and source ds has it.
CursorOf(h, ds) == IF ds.open THEN ds.l1height ELSE h

\* C11: a NextDA call made under a cancelled context with nothing buffered
\* returns an error and no entry, and leaves the watermark, the buffer and the
\* cursor as they were, whichever call opened the source in use.
C11_CancelledCallAborts ==
    (pc = "idle" /\ atCall.cancelled /\ atCall.da = <<>>)
    => /\ ret.err # Nil
       /\ ret.daEntry = NoEntry
       /\ l1height = atCall.l1height
       /\ da = atCall.da
       /\ CursorOf(l1height, dataSource) = CursorOf(atCall.l1height, atCall.dataSource)

\* --------------------------------------------------- claims on the decoders
\* The elements of a finite set of numbers, in increasing order.
RECURSIVE Ascending(_)
Ascending(S) ==
    IF S = {} THEN <<>>
    ELSE LET m == CHOOSE x \in S : \A y \in S : x <= y
         IN  <<m>> \o Ascending(S \ {m})

\* The slots of the decoded transaction, and the message indices they stand for.
ParentPopped ==
    IF HeaderTooShort(decIn.header) THEN 0 ELSE getBatchTotalL1MessagePopped(decIn.header)
TotalSlots == totalL1MessagePopped(decIn.chunks)
SlotIndices == {ParentPopped + k : k \in 0..(TotalSlots - 1)}
NonSkipped == {ParentPopped + k : k \in (0..(TotalSlots - 1)) \ decIn.bitmap.set}
SetSkipBits == decIn.bitmap.set \cap (0..(TotalSlots - 1))

\* The queue indices of the messages attached to the decoded entry, in order.
AttachedIndices ==
    [i \in 1..Len(decOut.r.entry.L1Txs) |-> decOut.r.entry.L1Txs[i].QueueIndex]

\* getCommitBatchDa returned for a non-genesis commit of the method and one of
\* the versions given.
Dispatched(methods, versions) ==
    /\ decOut.done
    /\ decOut.by = "getCommitBatchDa"
    /\ decIn.batchIndex # 0
    /\ decIn.method \in methods
    /\ decIn.version \in versions

\* C12: a version-0 commit that decodes successfully carries exactly the
\* messages at the non-skipped indices of [parent, parent + totalSlots), in
\* increasing order; their number is totalSlots minus the set skip bits.
C12_V0AttachesNonSkipped ==
    (Dispatched({"commitBatch"}, {0}) /\ decOut.r.err = Nil)
    => /\ AttachedIndices = Ascending(NonSkipped)
       /\ Len(decOut.r.entry.L1Txs) = TotalSlots - Cardinality(SetSkipBits)
       /\ decOut.r.bits \subseteq 0..(TotalSlots - 1)
       /\ decOut.r.reads \subseteq SlotIndices

\* A version-0 commit with a parent that popped messages, a skipped slot before
\* a slot that is not skipped, decoded successfully.
C12_Witness ==
    /\ Dispatched({"commitBatch"}, {0})
    /\ decOut.r.err = Nil
    /\ ParentPopped >= 1
    /\ TotalSlots >= 3
    /\ SetSkipBits = {0, 1}
    /\ Len(decOut.r.entry.L1Txs) = 1

\* C13: a version-1 or version-2 commit that decodes successfully carries
\* exactly the messages at the non-skipped indices of [parent, parent +
\* totalSlots), in increasing order, and no bitmap position or message index at
\* or beyond parent + totalSlots is examined.
C13_V1V2AttachesNonSkipped ==
    (Dispatched({"commitBatch"}, {1, 2}) /\ decOut.r.err = Nil)
    => /\ AttachedIndices = Ascending(NonSkipped)
       /\ decOut.r.bits \subseteq 0..(TotalSlots - 1)
       /\ decOut.r.reads \subseteq SlotIndices

\* The decoder reaches the reconciliation of the messages: every stage before
\* it succeeds, the blob is the transaction's, the header is whole and the
\* bitmap covers the slots.
ReachesMessages ==
    /\ decIn.stage \in {"none", "header", "nilBlob"}
    /\ decIn.method = "commitBatch" => decIn.version \in 0..2
    /\ (decIn.method # "commitBatch" \/ decIn.version # 0) => decIn.blob = "blob"
    /\ ~HeaderTooShort(decIn.header)
    /\ DecodeBitmap(decIn.bitmap, TotalSlots) = Nil

\* The non-skipped indices of the batch that the message store lacks.
MissingMessages == NonSkipped \cap decIn.missing

\* C14: a non-genesis commit of any version with a non-skipped index of its
\* range missing from the message store produces no entry; the decoder that
\* reaches the messages fails naming the smallest such index.
C14_MissingMessageFails ==
    (Dispatched({"commitBatch", "commitBatchWithBlobProof"}, Versions)
     /\ MissingMessages # {})
    => /\ decOut.r.err # Nil
       /\ decOut.r.entry = NoEntry
       /\ ReachesMessages =>
            /\ decOut.r.err = ErrReadL1Message
            /\ decOut.r.index = Ascending(MissingMessages)[1]

\* A version-1 or version-2 commit that lacks two messages after a skipped slot
\* fails on the smaller.
C14_Witness ==
    /\ Dispatched({"commitBatch"}, {1, 2})
    /\ ReachesMessages
    /\ Cardinality(MissingMessages) = 2
    /\ 0 \in SetSkipBits
    /\ decOut.r.err = ErrReadL1Message
    /\ decOut.r.index = ParentPopped + 1

\* C15: a commit log of batch index 0 yields the empty commit entry, with no
\* chunks and no messages, and no request is made for the transaction, the
\* blob hash, the blob or a message, whatever the call data.
C15_GenesisIsEmpty ==
    (decOut.done /\ decOut.by = "getCommitBatchDa" /\ decIn.batchIndex = 0)
    => /\ decOut.r.err = Nil
       /\ decOut.r.entry.DaType = "CommitBatchV0"
       /\ decOut.r.entry.BatchIndex = 0
       /\ decOut.r.entry.Chunks = <<>>
       /\ decOut.r.entry.L1Txs = <<>>
       /\ decOut.r.calls = <<>>
       /\ decOut.r.reads = {}
       /\ decOut.r.bits = {}

\* The genesis log of a transaction whose data cannot be fetched, is too short,
\* names no method or carries a version no codec has.
C15_Witness ==
    /\ decOut.done
    /\ decOut.by = "getCommitBatchDa"
    /\ decIn.batchIndex = 0
    /\ \/ decIn.stage \in {"txData", "short", "unpack"}
       \/ decIn.method = "unknown"
       \/ decIn.version = 3
    /\ decOut.r.entry = GenesisDa(0)

\* The decoder that made an entry.
DecoderOf(entry) ==
    IF entry.DaType = "CommitBatchV0" THEN 0
    ELSE IF entry.DaType = "CommitBatchV1" THEN 1
    ELSE IF entry.DaType = "CommitBatchV2" THEN 2
    ELSE -1

\* C16: for a non-genesis commit of either method, the decoder is the one of
\* the version the call data carries, and a version other than 0, 1 and 2
\* fails as an unknown version and produces no entry.
C16_DecoderByVersion ==
    (Dispatched({"commitBatch", "commitBatchWithBlobProof"}, Versions)
     /\ decIn.stage \notin {"txData", "short", "unpack", "copy"})
    => /\ decIn.version \notin 0..2 =>
            decOut.r.err = ErrUnknownCodec /\ decOut.r.entry = NoEntry
       /\ (decIn.version \in 0..2 /\ decOut.r.err = Nil) =>
            DecoderOf(decOut.r.entry) = decIn.version

\* The versioned hash of the blob the blob client returned is the one the
\* transaction carries.
BlobIsAuthentic ==
    CalcBlobHashV1(BlobToCommitment(decIn.blob)) = DecodeLog(decIn).blobHash

BlobDecodeCalls ==
    {"codecv1.DecodeTxsFromBlob", "codecv2.DecodeTxsFromBlob", "decodeTxsFromBlobFunc"}

\* The decoder of a version-1 or version-2 commit got a blob and its commitment.
BlobCompared ==
    /\ decOut.done
    /\ decIn.batchIndex # 0 \/ decOut.by = "NewCommitBatchDAV1"
    /\ decIn.method \in {"commitBatch", "commitBatchWithBlobProof"}
    /\ decIn.version \in {1, 2}
    /\ decIn.stage \in {"none", "blobTxs"} \cup
         (IF decOut.by = "getCommitBatchDa" THEN {"header", "nilBlob"} ELSE {})

\* C17: for a version-1 or version-2 commit the transactions are decoded from
\* the blob only when the hash recomputed from the blob is the versioned hash
\* of the transaction; when the two differ, decoding fails with the mismatch
\* error, the blob is not decoded and no entry is produced.
C17_BlobVerifiedBeforeDecode ==
    (decOut.done /\ decIn.version \in {1, 2})
    => /\ (\E i \in 1..Len(decOut.r.calls) : decOut.r.calls[i] \in BlobDecodeCalls)
            => BlobIsAuthentic
       /\ (BlobCompared /\ ~BlobIsAuthentic) =>
            /\ decOut.r.err = ErrBlobHashMismatch
            /\ decOut.r.entry = NoEntry
            /\ \A i \in 1..Len(decOut.r.calls) : decOut.r.calls[i] \notin BlobDecodeCalls

\* A version-2 commit whose blob was replaced failed on the comparison.
C17_Witness ==
    /\ BlobCompared
    /\ decOut.by = "getCommitBatchDa"
    /\ decIn.version = 2
    /\ ~BlobIsAuthentic
    /\ decOut.r.err = ErrBlobHashMismatch
    /\ decOut.r.calls = <<"fetchTxData", "fetchTxBlobHash", "GetBlobByVersionedHash">>

\* ------------------------------------------------ claims on processLogsToDA
\* The logs of the ranges NextData processed, in order.
RECURSIVE LogsOfRanges(_, _)
LogsOfRanges(c, rs) ==
    IF rs = <<>> THEN <<>>
    ELSE fetchRollupEventsInRange(c, rs[1][1], rs[1][2]) \o LogsOfRanges(c, Tail(rs))

ProcessedLogs == LogsOfRanges(chain, ranges)

\* The entries processLogsToDA returned, in order: those NextDA has returned
\* already and those still buffered.
Produced == delivered \o da

\* The event an entry stands for.
KindOf(entry) ==
    IF entry.DaType \in {"CommitBatchV0", "CommitBatchV1", "CommitBatchV2"}
    THEN l1CommitBatchEventSignature
    ELSE IF entry.DaType = "RevertBatch" THEN l1RevertBatchEventSignature
    ELSE IF entry.DaType = "FinalizeBatch" THEN l1FinalizeBatchEventSignature
    ELSE UnknownEventSignature

\* C18: the entries of the processed ranges are one per log, the i-th of the
\* kind and batch index of the i-th log.
C18_OneEntryPerLogInOrder ==
    /\ Len(Produced) = Len(ProcessedLogs)
    /\ \A i \in 1..Len(Produced) :
          /\ KindOf(Produced[i]) = ProcessedLogs[i].topic
          /\ Produced[i].BatchIndex = ProcessedLogs[i].batchIndex

\* A range with a Commit, a Revert, a Commit and a Finalize log, in this order,
\* was processed and its entries are buffered.
C18_Witness ==
    /\ Len(ranges) = 1
    /\ Len(da) >= 4
    /\ \E i \in 1..(Len(da) - 3) :
          /\ KindOf(da[i]) = l1CommitBatchEventSignature
          /\ KindOf(da[i + 1]) = l1RevertBatchEventSignature
          /\ KindOf(da[i + 2]) = l1CommitBatchEventSignature
          /\ KindOf(da[i + 3]) = l1FinalizeBatchEventSignature

\* The logs of the range the last NextData call fetched.
LastFetched == fetchRollupEventsInRange(chain, lastND.from, lastND.to)

KnownEventSignatures ==
    {l1CommitBatchEventSignature, l1RevertBatchEventSignature, l1FinalizeBatchEventSignature}

\* The positions of the logs of an unknown topic among logs.
UnknownAt(logs) == {i \in 1..Len(logs) : logs[i].topic \notin KnownEventSignatures}

\* The last NextData call got the logs of a range with a log of an unknown topic.
FetchedUnknown ==
    /\ lastND.called
    /\ lastND.fetched
    /\ lastND.err # ErrEvents
    /\ UnknownAt(LastFetched) # {}

\* C19: a step whose fetched range has a log of an unknown topic fails, the
\* cursor stays where it was, no entry of the range is buffered or returned,
\* and unless a commit before that log failed to decode, the error is the
\* unknown-event error naming the topic and the transaction of the log.
C19_UnknownTopicFails ==
    FetchedUnknown
    => /\ lastND.err # Nil
       /\ lastND.after = lastND.from
       /\ da = <<>>
       /\ Len(Produced) = Len(ProcessedLogs)
       /\ \A i \in 1..Len(ranges) : ranges[i][1] # lastND.from
       /\ lastND.err # ErrCommitDa =>
            LET vLog == LastFetched[Ascending(UnknownAt(LastFetched))[1]]
            IN  /\ lastND.err = ErrUnknownEvent
                /\ lastND.info = <<vLog.topic, vLog.txHash>>

\* A range holding a Finalize log and after it a log of an unknown topic was
\* fetched, and NextDA returned the unknown-event error.
C19_Witness ==
    /\ FetchedUnknown
    /\ pc = "idle"
    /\ ret.err = ErrUnknownEvent
    /\ Ascending(UnknownAt(LastFetched))[1] >= 2
    /\ lastND.info[1] = UnknownEventSignature

\* C20: every Revert and Finalize entry carries the block number of its log,
\* as the Commit entries of non-genesis batches do.
C20_EntriesCarryBlockNumber ==
    \A i \in 1..Len(Produced) :
       (i <= Len(ProcessedLogs)
        /\ KindOf(Produced[i]) \in {l1RevertBatchEventSignature, l1FinalizeBatchEventSignature})
       => Produced[i].L1BlockNumber = ProcessedLogs[i].blockNumber

\* C21: the refill retries after Exhausted without nesting: however many
\* consecutive Exhausted results the sources return inside one NextDA call,
\* no more than one invocation of getNextData is on the stack.
C21_RefillNestingBounded == depth <= 1

\* The entries of the last range NextData processed.
LastRangeEntries ==
    LET logs == fetchRollupEventsInRange(chain, ranges[Len(ranges)][1], ranges[Len(ranges)][2])
    IN  [i \in 1..Len(logs) |-> EntryOf(logs[i])]

IsSuffix(s, t) ==
    Len(s) <= Len(t) /\ \A i \in 1..Len(s) : s[i] = t[Len(t) - Len(s) + i]

\* C22: a NextData call that returned an error left no entry in the buffer,
\* whatever it had decoded before the failing log; the entries in the buffer
\* are entries of the last range that decoded as a whole, and the cursor of
\* the source is past that range.
C22_RangeAllOrNothing ==
    /\ (lastND.called /\ lastND.err # Nil) => da = <<>>
    /\ da # <<>> =>
          /\ ranges # <<>>
          /\ IsSuffix(da, LastRangeEntries)
          /\ dataSource.open
          /\ dataSource.l1height = ranges[Len(ranges)][2] + 1

\* The range from height 0 on failed at its fourth log, the Commit log of batch
\* 2, after three logs decoded; NextDA returned the error.
C22_Witness ==
    /\ pc = "idle"
    /\ lastND.called
    /\ lastND.err = ErrCommitDa
    /\ lastND.from = 0
    /\ lastND.info[1] = 2
    /\ ret.err = ErrCommitDa
    /\ da = <<>>

\* The entries of the logs of the processed ranges, in order.
ProcessedEntries == [i \in 1..Len(ProcessedLogs) |-> EntryOf(ProcessedLogs[i])]

NoDuplicates(s) == \A i, j \in 1..Len(s) : s[i] = s[j] => i = j

\* A step that changes the buffer or returns from NextDA.
BufferStep ==
    /\ da' # da =>
          \/ da = <<>> /\ delivered' = delivered
          \/ /\ da' = Tail(da)
             /\ delivered' = Append(delivered, Head(da))
             /\ ret' = [daEntry |-> Head(da), err |-> Nil]
    /\ delivered' # delivered => da # <<>> /\ da' = Tail(da)
    /\ (pc # "idle" /\ pc' = "idle" /\ ret'.err = Nil) =>
          /\ ret'.daEntry # NoEntry
          /\ delivered' = Append(delivered, ret'.daEntry)

\* C23: the entries NextDA returned followed by the entries in the buffer are
\* the entries of the processed ranges, each once and in order; the buffer
\* changes only by a refill of the empty buffer or by NextDA returning its
\* first entry; and a NextDA call that returns no error returns an entry.
C23_DeliveredExactlyOnce ==
    /\ [](Produced = ProcessedEntries /\ NoDuplicates(Produced))
    /\ [][BufferStep]_vars

\* Entries of two ranges were returned around a rotation of the source and a
\* failed call, and entries of the second range are still buffered.
C23_Witness ==
    /\ pc = "idle"
    /\ ret.err = Nil
    /\ Len(ranges) >= 2
    /\ srcBase >= 1
    /\ lastND.retry
    /\ Len(delivered) >= 3
    /\ da # <<>>

\* An entry of the chain's logs has not been returned yet.
Undelivered == Len(delivered) < Len(SourceOrder(chain, initHeight))

\* A step of a refill that finds the finalized height below the next height to
\* fetch: the queue takes the cursor as its watermark, drops the source and
\* stays in getNextData.
RotationStep ==
    (pc = "getNextData" /\ l1Finalized < CursorOf(l1height, dataSource)) =>
        /\ pc' = "getNextData"
        /\ ret' = ret
        /\ lastND' # lastND =>
              /\ lastND'.err = sourceExhaustedErr
              /\ ~dataSource'.open
              /\ l1height' = CursorOf(l1height, dataSource)

\* C24: NextDA never returns the Exhausted sentinel; when nothing fails and
\* the chain goes on finalizing, a NextDA call made while an entry of the chain
\* is still to be returned returns, without error, the first such entry; and
\* while the finalized height is below the next height to fetch, the refill
\* rotates sources and does not return.
C24_NextDAReturnsEntry ==
    /\ [](ret.err # errSourceExhausted)
    /\ [](IsPrefix(delivered, SourceOrder(chain, initHeight)))
    /\ (pc # "idle" /\ Undelivered)
          ~> (pc = "idle" /\ ret.err = Nil /\ delivered # <<>>
              /\ ret.daEntry = delivered[Len(delivered)])
    /\ [][RotationStep]_vars

\* NextDA returned the first entry of a range that a source opened after an
\* Exhausted result had fetched.
C24_Witness ==
    /\ pc = "idle"
    /\ ret.err = Nil
    /\ ret.daEntry # NoEntry
    /\ lastND.fresh /\ lastND.err = Nil
    /\ srcBase >= 1
    /\ l1height > initHeight
    /\ Len(ranges) = srcBase + 1
    /\ Len(da) + 1 = Len(LastRangeEntries)

====
